---- MODULE Spec2Model ----
(***************************************************************************)
(* Model of run_openfold_batch.py: the job runner run_one, the round       *)
(* scheduler run_tasks (a ThreadPoolExecutor of len(gpu_ids) workers and   *)
(* the as_completed collection loop) and the retry driver of main.         *)
(***************************************************************************)
EXTENDS Integers, Sequences, FiniteSets, TLC

----------------------------------------------------------------------------
(* Bounds of the model *)

\* number of seed directories found by main (len(seeds))
NumJobs == 3
\* largest number of GPU ids given with --gpus
MaxGpus == 2
\* largest value of --max_retries
MaxRetries == 1
\* longest captured child output, in text units
MaxTextLen == 2

\* number of run_one calls preparing a child environment at the same time
NumEnvCalls == 2

----------------------------------------------------------------------------
(* Values *)

None == "None"

\* tail = 200_000 characters read back from the end of the log file
tail == 200000

\* Text is a sequence of units; a unit stands for a run of characters that the
\* markers either contain whole or not at all.  "error:" is the lower-case
\* spelling, which the scan (no case folding) must not match.
TextUnits ==
    { "Traceback (most recent call last)", "Value", "Runtime", "Assertion",
      "Error:", "error:", "Exception:", "More than one input sequence found",
      "done" }

err_markers ==
    << <<"Traceback (most recent call last)">>,
       <<"Value", "Error:">>,
       <<"Runtime", "Error:">>,
       <<"Assertion", "Error:">>,
       <<"Error:">>,
       <<"Exception:">>,
       <<"More than one input sequence found">> >>

\* m in text, for strings: m occurs as a contiguous piece of text
Contains(m, text) ==
    \E s \in 0..(Len(text) - Len(m)) :
        \A k \in 1..Len(m) : text[s + k] = m[k]

Max(a, b) == IF a >= b THEN a ELSE b

\* f.seek(max(0, size - tail)); f.read()
ReadTail(content) ==
    LET size == Len(content)
        from == Max(0, size - tail)
    IN  SubSeq(content, from + 1, size)

\* variant: a failed read of the log leaves the child's output as the text
CapturedText_NoFallback(out, log_file, readOk) ==
    IF log_file = None THEN out ELSE ReadTail(out)

\* the text run_one scans: the pipe's whole output, or the tail of the log
\* file, or "" when reading the log back raised
CapturedText(out, log_file, readOk) ==
    IF log_file = None THEN out
    ELSE IF readOk THEN ReadTail(out)
    ELSE <<>>

\* variant: the scan looks for the first marker only
Classify_FirstMarkerOnly(ret, text) ==
    IF ret = 0
    THEN IF Contains(err_markers[1], text) THEN 1 ELSE 0
    ELSE ret

\* the marker override of run_one: ret == 0 and any marker in text -> 1
Classify(ret, text) ==
    IF ret = 0
    THEN IF \E n \in 1..Len(err_markers) : Contains(err_markers[n], text)
         THEN 1 ELSE 0
    ELSE ret

\* the value run_one returns for a child that exited with code and wrote out
run_one(code, out, log_file, readOk) ==
    Classify(code, CapturedText(out, log_file, readOk))

----------------------------------------------------------------------------
(* Environments: a dict from variable names to strings; Unset marks a name
   the dict does not hold *)

Unset == "<unset>"

EnvNames == {"CUDA_VISIBLE_DEVICES", "CUDA_DEVICE_ORDER", "PATH"}

DecimalDigits == <<"0", "1", "2", "3", "4", "5", "6", "7", "8", "9">>

\* str(n) for an int
RECURSIVE str(_)
str(n) ==
    IF n < 0 THEN "-" \o str(-n)
    ELSE IF n < 10 THEN DecimalDigits[n + 1]
    ELSE str(n \div 10) \o DecimalDigits[(n % 10) + 1]

\* env[k] = v
SetItem(env, k, v) == [env EXCEPT ![k] = v]

\* variant: the default replaces a value the caller has set
SetDefault_Overwrite(env, k, v) == [env EXCEPT ![k] = v]

\* env.setdefault(k, v)
SetDefault(env, k, v) == IF env[k] = Unset THEN [env EXCEPT ![k] = v] ELSE env

\* the environments the scheduler may be started in
Environs ==
    { e \in [EnvNames -> {Unset, "/usr/bin", "7", "FASTEST_FIRST"}] :
        /\ e["PATH"] = "/usr/bin"
        /\ e["CUDA_VISIBLE_DEVICES"] \in {Unset, "7"}
        /\ e["CUDA_DEVICE_ORDER"] \in {Unset, "FASTEST_FIRST"} }

\* the environment of the runs in which the environment plays no part
PlainEnviron ==
    [k \in EnvNames |-> IF k = "PATH" THEN "/usr/bin" ELSE Unset]

\* GPU ids given to the calls of run_one that build an environment
EnvGpuIds == {0, 1, 10}

----------------------------------------------------------------------------
(* Inputs *)

\* seed names, in the sorted order of main
Seeds == 1..NumJobs

\* the command line build_cmd makes for a seed (it differs per seed in
\* --output_dir and --use_precomputed_alignments)
build_cmd(seed) == <<"script", "out", seed, "aln", seed>>

\* <log_dir>/<seed>.log, or None without --log_dir
LogFileOf(log_dir, seed) == IF log_dir = None THEN None ELSE <<log_dir, seed>>

\* the task tuple (cmd, gpu_id placeholder, seed_name, log_file)
Task(cmd, gpu, seed, log) ==
    [cmd |-> cmd, gpu_id |-> gpu, seed_name |-> seed, log_file |-> log]

\* tasks as built by main: gpu_id is the placeholder -1
InitialTasks(log_dir) ==
    [k \in 1..NumJobs |-> Task(build_cmd(k), -1, k, LogFileOf(log_dir, k))]

\* the arguments of run_one recorded for a seed that was not run in a round
NoRun == [cmd |-> <<>>, gpu_id |-> -1, log_file |-> None]

\* the GPU id lists tried: G ids, not equal to their positions
GpuIdList(G) == [k \in 1..G |-> G - k]

\* what a started child of a round can do: (exit code, combined output)
ChildOutcomes ==
    { [code |-> 0, out |-> <<"done">>],
      [code |-> 0, out |-> <<"Runtime", "Error:">>],
      [code |-> 1, out |-> <<"done">>] }

\* exit codes of a child given to run_one alone (negative: killed by a signal)
ExitCodes == {-9, 0, 1, 2}

\* the outputs of a child given to run_one alone
Texts == UNION {[1..n -> TextUnits] : n \in 0..MaxTextLen}

\* --log_dir of the rounds modelled (to-file mode)
LogDir == "logs"

----------------------------------------------------------------------------
VARIABLES
    gpu_ids,      \* the list parsed from --gpus
    max_retries,  \* --max_retries
    tasks,        \* the list run_tasks is running (a round's job list)
    nsub,         \* number of tasks the submit loop has submitted
    futs,         \* the futures of the round, by position
    rok,          \* run_tasks' local ok
    rfail,        \* run_tasks' local fail
    ok,           \* main's ok
    fail,         \* main's fail
    attempts,     \* main's attempts (retry rounds started)
    pc,           \* where the main thread is
    hist,         \* per seed, the outcome of each attempt so far
    prev,         \* per seed, the arguments of its run in the previous round
    ro,           \* a call of run_one alone: the child's exit code and output,
                  \* log_file, and whether the log can be read back
    ro_text,      \* run_one's text
    ro_ret,       \* run_one's ret
    ro_pc,        \* where that call is
    os_environ,   \* os.environ of the scheduler process
    env_calls     \* concurrent calls of run_one building their child's env:
                  \* per call its gpu_id, its local env and the child's env

svars == <<gpu_ids, max_retries, tasks, nsub, futs, rok, rfail, ok, fail,
           attempts, pc, hist, prev>>
rvars == <<ro, ro_text, ro_ret, ro_pc>>
evars == <<os_environ, env_calls>>
vars == <<svars, rvars, evars>>

G == Len(gpu_ids)

\* positions of the round's futures in a given state
InState(S) == {k \in 1..Len(futs) : futs[k].st \in S}

Running == InState({"running"})

Names(descs) == {descs[k].seed_name : k \in 1..Len(descs)}

----------------------------------------------------------------------------
Init ==
    /\ gpu_ids \in {GpuIdList(g) : g \in 1..MaxGpus}
    /\ max_retries \in 0..MaxRetries
    /\ tasks = InitialTasks(LogDir)
    /\ nsub = 0
    /\ futs = <<>>
    /\ rok = <<>>
    /\ rfail = <<>>
    /\ ok = <<>>
    /\ fail = <<>>
    /\ attempts = 0
    /\ pc = "submit"
    /\ hist = [s \in Seeds |-> <<>>]
    /\ prev = [s \in Seeds |-> NoRun]
    /\ ro = None
    /\ ro_text = <<>>
    /\ ro_ret = None
    /\ ro_pc = "idle"
    /\ os_environ = PlainEnviron
    /\ env_calls = <<>>

\* variant: a task that carries a GPU id keeps it
AssignGpu_KeepCarried(i) ==
    IF tasks[i + 1].gpu_id # -1 THEN tasks[i + 1].gpu_id
    ELSE gpu_ids[(i % G) + 1]

\* gpu_ids[i % len(gpu_ids)] for the 0-indexed position i
AssignGpu(i) == gpu_ids[(i % G) + 1]

\* the future made by ex.submit(run_one, cmd, gpu_id, log_file, ...) for the
\* task at 0-indexed position i: the arguments given to run_one, which with
\* seed_name are its future_to_task entry, the future's state and result, and
\* the status lines printed for it
NewFuture(i) ==
    LET t == tasks[i + 1]
        gpu_id == AssignGpu(i)
    IN  [cmd |-> t.cmd, gpu_id |-> gpu_id, seed_name |-> t.seed_name,
         log_file |-> t.log_file, st |-> "queued", ret |-> 0,
         printed |-> <<>>]

\* variant: submit waits while len(gpu_ids) submitted jobs are not completed
Submit_Blocking ==
    /\ pc = "submit"
    /\ nsub < Len(tasks)
    /\ Cardinality(InState({"queued", "running"})) < G
    /\ futs' = Append(futs, NewFuture(nsub))
    /\ nsub' = nsub + 1
    /\ pc' = IF nsub + 1 = Len(tasks) THEN "collect" ELSE "submit"
    /\ UNCHANGED <<evars, rvars, gpu_ids, max_retries, tasks, rok, rfail, ok, fail,
                   attempts, hist, prev>>

\* one iteration of the submit loop; submit never blocks
Submit ==
    /\ pc = "submit"
    /\ nsub < Len(tasks)
    /\ futs' = Append(futs, NewFuture(nsub))
    /\ nsub' = nsub + 1
    /\ pc' = IF nsub + 1 = Len(tasks) THEN "collect" ELSE "submit"
    /\ UNCHANGED <<evars, rvars, gpu_ids, max_retries, tasks, rok, rfail, ok, fail,
                   attempts, hist, prev>>

\* variant: a pool that starts a thread for every work item
WorkerFree_Unbounded == TRUE

\* jobs whose child never exits: run_one stays in communicate() or wait()
Hung == InState({"hung"})

\* variant: the worker of a child that never exits counts as free
WorkerFree_IgnoresHung == Cardinality(Running) < G

\* a worker thread is free to take a work item
WorkerFree == Cardinality(Running \cup Hung) < G

\* the work queue is FIFO: the next item is the oldest one still queued
NextQueued == CHOOSE k \in InState({"queued"}) :
                  \A j \in InState({"queued"}) : k <= j

PoolLive == pc \in {"submit", "collect", "unwind"}

\* variant: a job waits until no running job has its GPU id
StartJob_GpuExclusive ==
    /\ PoolLive
    /\ InState({"queued"}) # {}
    /\ WorkerFree
    /\ \A k \in Running : futs[k].gpu_id # futs[NextQueued].gpu_id
    /\ futs' = [futs EXCEPT ![NextQueued].st = "running"]
    /\ UNCHANGED <<evars, rvars, gpu_ids, max_retries, tasks, nsub, rok, rfail,
                   ok, fail, attempts, pc, hist, prev>>

\* a worker takes the next item and run_one starts the child process
StartJob ==
    /\ PoolLive
    /\ InState({"queued"}) # {}
    /\ WorkerFree
    /\ futs' = [futs EXCEPT ![NextQueued].st = "running"]
    /\ UNCHANGED <<evars, rvars, gpu_ids, max_retries, tasks, nsub, rok, rfail, ok, fail,
                   attempts, pc, hist, prev>>

\* a worker takes the next item and run_one raises before a child runs
\* (open(log_file, "w") or Popen fails): the future holds the exception
SpawnFail ==
    /\ PoolLive
    /\ InState({"queued"}) # {}
    /\ WorkerFree
    /\ LET k == NextQueued
       IN  /\ futs' = [futs EXCEPT ![k].st = "raised"]
           /\ hist' = [hist EXCEPT ![futs[k].seed_name] = Append(@, "raise")]
    /\ UNCHANGED <<evars, rvars, gpu_ids, max_retries, tasks, nsub, rok, rfail, ok, fail,
                   attempts, pc, prev>>

\* the child of a running job exits and run_one returns
FinishJob ==
    /\ PoolLive
    /\ \E k \in Running, o \in ChildOutcomes, readOk \in BOOLEAN :
        LET ret == run_one(o.code, o.out, futs[k].log_file, readOk)
        IN  /\ futs' = [futs EXCEPT ![k].st = "done", ![k].ret = ret]
            /\ hist' = [hist EXCEPT ![futs[k].seed_name] =
                            Append(@, IF ret = 0 THEN "ok" ELSE "fail")]
    /\ UNCHANGED <<evars, rvars, gpu_ids, max_retries, tasks, nsub, rok, rfail, ok, fail,
                   attempts, pc, prev>>

\* variant: the name is appended whatever ret is
OkAfter_Unconditional(f) == Append(rok, f.seed_name)

\* ok after the loop body for a finished future
OkAfter(f) == IF f.ret = 0 THEN Append(rok, f.seed_name) ELSE rok

\* variant: the descriptor is built from the submit loop's last cmd and
\* log_file instead of the future's own entry
FailAfter_Stale(f) ==
    IF f.ret = 0 THEN rfail
    ELSE Append(rfail, Task(tasks[Len(tasks)].cmd, f.gpu_id,
                            f.seed_name, tasks[Len(tasks)].log_file))

\* fail after the loop body for a finished future
FailAfter(f) ==
    IF f.ret = 0 THEN rfail
    ELSE Append(rfail, Task(f.cmd, f.gpu_id, f.seed_name, f.log_file))

\* the line printed for a finished future: [OK][GPU{gpu_id}][{seed_name}] or
\* [FAIL][GPU{gpu_id}][{seed_name}] ret={ret}
StatusLine(f) ==
    IF f.ret = 0 THEN <<"OK", f.gpu_id, f.seed_name>>
    ELSE <<"FAIL", f.gpu_id, f.seed_name, f.ret>>

\* variant: the results are taken only when no job of the round is left to run
Collect_Batched ==
    /\ pc = "collect"
    /\ InState({"queued", "running"}) = {}
    /\ \E k \in InState({"done"}) :
        /\ futs' = [futs EXCEPT ![k].st = "collected",
                                ![k].printed = Append(@, StatusLine(futs[k]))]
        /\ rok' = OkAfter(futs[k])
        /\ rfail' = FailAfter(futs[k])
    /\ UNCHANGED <<evars, rvars, gpu_ids, max_retries, tasks, nsub, ok, fail,
                   attempts, pc, hist, prev>>

\* one iteration of the as_completed loop on a future that returned
Collect ==
    /\ pc = "collect"
    /\ \E k \in InState({"done"}) :
        /\ futs' = [futs EXCEPT ![k].st = "collected",
                                ![k].printed = Append(@, StatusLine(futs[k]))]
        /\ rok' = OkAfter(futs[k])
        /\ rfail' = FailAfter(futs[k])
    /\ UNCHANGED <<evars, rvars, gpu_ids, max_retries, tasks, nsub, ok, fail, attempts, pc,
                   hist, prev>>

\* variant: the exception is caught and the job is recorded as failed
CollectRaise_Classified ==
    /\ pc = "collect"
    /\ \E k \in InState({"raised"}) :
        /\ futs' = [futs EXCEPT ![k].st = "collected", ![k].ret = 1]
        /\ rfail' = Append(rfail, Task(futs[k].cmd, futs[k].gpu_id,
                                       futs[k].seed_name, futs[k].log_file))
    /\ UNCHANGED <<evars, rvars, gpu_ids, max_retries, tasks, nsub, rok, ok,
                   fail, attempts, pc, hist, prev>>

\* fut.result() re-raises the exception of a future that raised; it leaves
\* the loop and the with block, whose exit waits for the pool
CollectRaise ==
    /\ pc = "collect"
    /\ InState({"raised"}) # {}
    /\ pc' = "unwind"
    /\ UNCHANGED <<evars, rvars, gpu_ids, max_retries, tasks, nsub, futs, rok, rfail, ok,
                   fail, attempts, hist, prev>>

\* variant: the exception leaves the with block without waiting for the pool
Crash_NoWait ==
    /\ pc = "unwind"
    /\ pc' = "crashed"
    /\ UNCHANGED <<evars, rvars, gpu_ids, max_retries, tasks, nsub, futs, rok, rfail,
                   ok, fail, attempts, hist, prev>>

\* shutdown(wait=True) returns once every work item has run; the exception
\* then leaves run_tasks and main
Crash ==
    /\ pc = "unwind"
    /\ InState({"queued", "running", "hung"}) = {}
    /\ pc' = "crashed"
    /\ UNCHANGED <<evars, rvars, gpu_ids, max_retries, tasks, nsub, futs, rok, rfail, ok,
                   fail, attempts, hist, prev>>

\* variant: run_tasks returns while jobs of the round are still running
ReturnRound_Early ==
    /\ pc = "collect"
    /\ InState({"collected", "running"}) = 1..Len(tasks)
    /\ pc' = "returned"
    /\ UNCHANGED <<evars, rvars, gpu_ids, max_retries, tasks, nsub, futs, rok,
                   rfail, ok, fail, attempts, hist, prev>>

\* every future was collected: return ok, fail
ReturnRound ==
    /\ pc = "collect"
    /\ InState({"collected"}) = 1..Len(tasks)
    /\ pc' = "returned"
    /\ UNCHANGED <<evars, rvars, gpu_ids, max_retries, tasks, nsub, futs, rok, rfail, ok,
                   fail, attempts, hist, prev>>

\* variant: a retry round's successes are not added to ok
OkMerged_NoExtend == IF attempts = 0 THEN rok ELSE ok

\* variant: a retry round's successes replace ok
OkMerged_Overwrite == rok

\* main's ok once the round's result is taken: ok, fail = run_tasks(...) for
\* round 1, ok.extend(ok2) for a retry round
OkMerged == IF attempts = 0 THEN rok ELSE ok \o rok

\* variant: the loop gives up one retry early
RetryCond_StopsEarly(f) == f # <<>> /\ attempts < max_retries - 1

\* variant: the budget test is off by one
RetryCond_OffByOne(f) == f # <<>> /\ attempts <= max_retries

\* the condition of the while loop, on the fail list just taken
RetryCond(f) == f # <<>> /\ attempts < max_retries

\* the arguments each seed in the fail list of the finished round was run with
RanWith == [s \in Seeds |->
              IF \E k \in 1..Len(futs) :
                    futs[k].seed_name = s /\ futs[k].ret # 0
              THEN LET f == futs[CHOOSE k \in 1..Len(futs) : futs[k].seed_name = s]
                   IN  [cmd |-> f.cmd, gpu_id |-> f.gpu_id, log_file |-> f.log_file]
              ELSE NoRun]

\* variant: the retry round runs the whole list again
RetryTasks_All == tasks

\* the list the retry round runs: run_tasks(fail, ...) on the fail just taken
RetryTasks == rfail

\* main takes the round's result and the while loop starts a retry round
RetryRound ==
    /\ pc = "returned"
    /\ RetryCond(rfail)
    /\ ok' = OkMerged
    /\ fail' = rfail
    /\ attempts' = attempts + 1
    /\ tasks' = RetryTasks
    /\ prev' = RanWith
    /\ nsub' = 0
    /\ futs' = <<>>
    /\ rok' = <<>>
    /\ rfail' = <<>>
    /\ pc' = "submit"
    /\ UNCHANGED <<evars, rvars, gpu_ids, max_retries, hist>>

\* main takes the round's result, the while loop ends, the report is printed
FinalReport ==
    /\ pc = "returned"
    /\ ~RetryCond(rfail)
    /\ ok' = OkMerged
    /\ fail' = rfail
    /\ pc' = "done"
    /\ UNCHANGED <<evars, rvars, gpu_ids, max_retries, tasks, nsub, futs, rok, rfail,
                   attempts, hist, prev>>

Next ==
    \/ Submit
    \/ StartJob
    \/ SpawnFail
    \/ FinishJob
    \/ Collect
    \/ CollectRaise
    \/ Crash
    \/ ReturnRound
    \/ RetryRound
    \/ FinalReport

Spec == Init /\ [][Next]_vars

\* the main thread and the workers keep being scheduled, and every child that
\* was started exits
FairSpec == Spec /\ WF_vars(Next)

----------------------------------------------------------------------------
(* the run when one child process never exits *)

\* the child of a running job turns out never to exit: communicate() and
\* wait() have no timeout, so run_one never returns (one such child per run)
ChildHangs ==
    /\ PoolLive
    /\ Hung = {}
    /\ \E k \in Running : futs' = [futs EXCEPT ![k].st = "hung"]
    /\ UNCHANGED <<evars, rvars, gpu_ids, max_retries, tasks, nsub, rok, rfail,
                   ok, fail, attempts, pc, hist, prev>>

NextHang ==
    \/ Submit
    \/ StartJob
    \/ SpawnFail
    \/ FinishJob
    \/ ChildHangs
    \/ Collect
    \/ CollectRaise
    \/ Crash
    \/ ReturnRound
    \/ RetryRound
    \/ FinalReport

SpecHang == Init /\ [][NextHang]_vars

----------------------------------------------------------------------------
(* run_one on its own, for every exit code and output of the child *)

InitRunOne ==
    /\ gpu_ids = GpuIdList(1)
    /\ max_retries = 0
    /\ tasks = InitialTasks(LogDir)
    /\ nsub = 0
    /\ futs = <<>>
    /\ rok = <<>>
    /\ rfail = <<>>
    /\ ok = <<>>
    /\ fail = <<>>
    /\ attempts = 0
    /\ pc = "idle"
    /\ hist = [s \in Seeds |-> <<>>]
    /\ prev = [s \in Seeds |-> NoRun]
    /\ ro \in { r \in [code : ExitCodes, out : Texts,
                       log_file : {None, LogFileOf(LogDir, 1)},
                       readOk : BOOLEAN] :
                    r.log_file = None => r.readOk }
    /\ ro_text = <<>>
    /\ ro_ret = None
    /\ ro_pc = "child"
    /\ os_environ = PlainEnviron
    /\ env_calls = <<>>

\* the child runs and exits: ret is its exit code, text what run_one captured
\* (communicate(), or the tail of the log file, or "" if reading it raised)
WaitChild ==
    /\ ro_pc = "child"
    /\ ro_ret' = ro.code
    /\ ro_text' = CapturedText(ro.out, ro.log_file, ro.readOk)
    /\ ro_pc' = "scan"
    /\ UNCHANGED <<svars, evars, ro>>

\* the marker scan, and return ret
ScanMarkers ==
    /\ ro_pc = "scan"
    /\ ro_ret' = Classify(ro_ret, ro_text)
    /\ ro_pc' = "returned"
    /\ UNCHANGED <<svars, evars, ro, ro_text>>

NextRunOne ==
    \/ WaitChild
    \/ ScanMarkers

SpecRunOne == InitRunOne /\ [][NextRunOne]_vars

----------------------------------------------------------------------------
(* The child environment of run_one, for calls running at the same time *)

\* no round is running
IdleScheduler ==
    /\ gpu_ids = GpuIdList(1)
    /\ max_retries = 0
    /\ tasks = InitialTasks(LogDir)
    /\ nsub = 0
    /\ futs = <<>>
    /\ rok = <<>>
    /\ rfail = <<>>
    /\ ok = <<>>
    /\ fail = <<>>
    /\ attempts = 0
    /\ pc = "idle"
    /\ hist = [s \in Seeds |-> <<>>]
    /\ prev = [s \in Seeds |-> NoRun]

\* no call of run_one alone is followed
IdleRunOne ==
    /\ ro = None
    /\ ro_text = <<>>
    /\ ro_ret = None
    /\ ro_pc = "idle"

InitEnv ==
    /\ IdleScheduler
    /\ IdleRunOne
    /\ os_environ \in Environs
    /\ env_calls \in [1..NumEnvCalls ->
                        [gpu_id : EnvGpuIds, at : {"copy"},
                         env : {PlainEnviron}, child_env : {PlainEnviron}]]

\* env = os.environ.copy()
CopyEnviron(c) ==
    /\ env_calls[c].at = "copy"
    /\ env_calls' = [env_calls EXCEPT ![c].env = os_environ, ![c].at = "pin"]
    /\ UNCHANGED <<svars, rvars, os_environ>>

\* env["CUDA_VISIBLE_DEVICES"] = str(gpu_id)
PinGpu(c) ==
    /\ env_calls[c].at = "pin"
    /\ env_calls' = [env_calls EXCEPT
                        ![c].env = SetItem(@, "CUDA_VISIBLE_DEVICES",
                                           str(env_calls[c].gpu_id)),
                        ![c].at = "order"]
    /\ UNCHANGED <<svars, rvars, os_environ>>

\* env.setdefault("CUDA_DEVICE_ORDER", "PCI_BUS_ID")
DefaultOrder(c) ==
    /\ env_calls[c].at = "order"
    /\ env_calls' = [env_calls EXCEPT
                        ![c].env = SetDefault(@, "CUDA_DEVICE_ORDER", "PCI_BUS_ID"),
                        ![c].at = "popen"]
    /\ UNCHANGED <<svars, rvars, os_environ>>

\* subprocess.Popen(cmd, env=env, ...): the child starts with env
PopenWithEnv(c) ==
    /\ env_calls[c].at = "popen"
    /\ env_calls' = [env_calls EXCEPT
                        ![c].child_env = env_calls[c].env, ![c].at = "spawned"]
    /\ UNCHANGED <<svars, rvars, os_environ>>

NextEnv ==
    \E c \in 1..NumEnvCalls :
        \/ CopyEnviron(c)
        \/ PinGpu(c)
        \/ DefaultOrder(c)
        \/ PopenWithEnv(c)

SpecEnv == InitEnv /\ [][NextEnv]_vars

----------------------------------------------------------------------------
(* Properties *)

SeqToSet(q) == {q[k] : k \in 1..Len(q)}
NoDuplicates(q) == \A a, b \in 1..Len(q) : q[a] = q[b] => a = b
RoundEnded == pc = "returned"
Reported == pc = "done"
AnyRaised == InState({"raised"}) # {}

\* C1: when a round returns, the names in the returned succeeded list and the
\* names in the returned failed list are disjoint, together they are exactly
\* the names submitted to the round, and no name is listed twice.
C1_RoundPartition ==
    RoundEnded =>
        /\ SeqToSet(rok) \cap Names(rfail) = {}
        /\ SeqToSet(rok) \cup Names(rfail) = Names(tasks)
        /\ Len(rok) + Len(rfail) = Len(tasks)
        /\ NoDuplicates(rok)
        /\ NoDuplicates([k \in 1..Len(rfail) |-> rfail[k].seed_name])

\* a retry round has returned with both lists non-empty
C1_Witness ==
    /\ RoundEnded
    /\ attempts >= 1
    /\ rok # <<>>
    /\ rfail # <<>>

\* C2: at most G = len(gpu_ids) jobs are running at the same time, also in
\* rounds with more jobs than GPU ids.
C2_ConcurrencyBound == Cardinality(Running) <= Len(gpu_ids)

\* every worker is busy and a job of the round is still waiting
C2_Witness ==
    /\ Len(tasks) > Len(gpu_ids)
    /\ Len(gpu_ids) >= 2
    /\ Cardinality(Running) = Len(gpu_ids)
    /\ InState({"queued"}) # {}

\* does the text hold one of the seven markers, said without Contains: as a
\* piece of the text cut out by its two ends
MarkerSet == {err_markers[n] : n \in 1..Len(err_markers)}
HoldsMarker(text) ==
    \E a \in 1..Len(text) : \E b \in a..Len(text) :
        SubSeq(text, a, b) \in MarkerSet

\* C5: run_one returns 0 iff the child exited 0 and the captured text holds
\* no failure marker; a nonzero exit code is returned unchanged whatever the
\* text; exit code 0 with a marker in the text is returned as 1.
C5_Classification ==
    ro_pc = "returned" =>
        /\ ro_ret = 0 <=> (ro.code = 0 /\ ~HoldsMarker(ro_text))
        /\ ro.code # 0 => ro_ret = ro.code
        /\ (ro.code = 0 /\ HoldsMarker(ro_text)) => ro_ret = 1

\* a child that exited 0 and printed "RuntimeError:" was judged failed
C5_Witness ==
    /\ ro_pc = "returned"
    /\ ro.code = 0
    /\ ro_text = <<"Runtime", "Error:">>
    /\ ro_ret = 1

\* C6: in every round the job at 0-indexed position i is run with
\* gpu_ids[i mod G]; the GPU id carried in its task tuple plays no part.
C6_GpuByPosition ==
    \A k \in 1..Len(futs) :
        /\ futs[k].gpu_id = gpu_ids[((k - 1) % Len(gpu_ids)) + 1]
        /\ futs[k].seed_name = tasks[k].seed_name

\* in a retry round a job runs on another GPU id than the one its tuple carries
C6_Witness ==
    /\ attempts >= 1
    /\ \E k \in Running :
          /\ tasks[k].gpu_id # -1
          /\ tasks[k].gpu_id # futs[k].gpu_id

\* the outcomes of a seed's attempts are all of one kind
AllAttempts(s, kind) == \A a \in 1..Len(hist[s]) : hist[s][a] = kind

\* C3: at the final report, a job that failed on every attempt was attempted
\* exactly max_retries + 1 times, is in the final failed list and is not in
\* the succeeded list, whatever verdicts the other jobs got.
C3_AlwaysFailing ==
    Reported =>
        \A s \in Seeds :
            AllAttempts(s, "fail") =>
                /\ Len(hist[s]) = max_retries + 1
                /\ s \in Names(fail)
                /\ s \notin SeqToSet(ok)

\* final report with max_retries = 1: one job failed twice, the others
\* succeeded at once
C3_Witness ==
    /\ Reported
    /\ max_retries = 1
    /\ \E s \in Seeds :
          /\ hist[s] = <<"fail", "fail">>
          /\ Names(fail) = {s}
          /\ \A t \in Seeds \ {s} : hist[t] = <<"ok">>

\* C4: a job that failed on its first attempt and succeeded on its second is
\* never attempted a third time, and at the final report its name is in the
\* succeeded list and not in the failed list.
C4_FailThenSucceed ==
    \A s \in Seeds :
        (Len(hist[s]) >= 2 /\ hist[s][1] = "fail" /\ hist[s][2] = "ok") =>
            /\ Len(hist[s]) = 2
            /\ \A k \in 1..Len(futs) :
                  (futs[k].seed_name = s /\ futs[k].st \in {"queued", "running"})
                      => FALSE
            /\ Reported => (s \in SeqToSet(ok) /\ s \notin Names(fail))

\* final report: a job failed, then succeeded on retry, while another job
\* still fails
C4_Witness ==
    /\ Reported
    /\ \E s \in Seeds : hist[s] = <<"fail", "ok">>
    /\ fail # <<>>

\* C7: a name is put in the accumulated succeeded list at most once, a job
\* that got a Succeeded verdict is never submitted again, and the jobs
\* submitted to a retry round are exactly the jobs that failed in the round
\* before it.
C7_SucceededIsTerminal ==
    /\ NoDuplicates(IF Reported THEN ok ELSE ok \o rok)
    /\ \A s \in Seeds : \A a \in 1..Len(hist[s]) :
          hist[s][a] = "ok" => a = Len(hist[s])
    /\ attempts >= 1 =>
          /\ ~Reported => Names(tasks) \cap SeqToSet(ok) = {}
          /\ ~Reported => Names(tasks) = Names(fail)
          /\ \A k \in 1..Len(tasks) :
                /\ Len(hist[tasks[k].seed_name]) >= attempts
                /\ \A a \in 1..attempts : hist[tasks[k].seed_name][a] = "fail"
          /\ \A s \in Seeds \ Names(tasks) : Len(hist[s]) < attempts + 1

\* a retry round is running with some job left out because it had succeeded
C7_Witness ==
    /\ attempts >= 1
    /\ pc = "collect"
    /\ ok # <<>>
    /\ rok # <<>>
    /\ Names(tasks) # Seeds

Crashed == pc = "crashed"
FirstTryAllOk == \A s \in Seeds : hist[s] = <<"ok">>

\* C8 as stated: once every started child exits, the run reaches the final
\* report.
C8_AlwaysReports == <>Reported

\* steps a future still has to take: start, finish, be collected
StepsLeft(st) ==
    CASE st = "queued" -> 3
      [] st = "running" -> 2
      [] st = "done" -> 1
      [] st = "raised" -> 1
      [] OTHER -> 0

RECURSIVE SumStepsLeft(_)
SumStepsLeft(k) ==
    IF k = 0 THEN 0 ELSE StepsLeft(futs[k].st) + SumStepsLeft(k - 1)

\* steps the main thread still has to take in the round
MainStepsLeft ==
    CASE pc \in {"submit", "collect"} -> 3
      [] pc = "returned" -> 2
      [] pc = "unwind" -> 1
      [] OTHER -> 0

\* the most steps a round can take from a retry
RoundSteps == 4 * NumJobs + 4

\* a bound on the steps left in the run; 0 only at the end
StepsBound ==
    (max_retries - attempts) * RoundSteps
        + 4 * (Len(tasks) - Len(futs)) + SumStepsLeft(Len(futs)) + MainStepsLeft

\* C8, amended: the run always ends (every step lowers a bound on the steps
\* left, and a step can be taken until the end), in the final report or, only
\* after some job's run_one raised, in the exception leaving main; a round's
\* result is followed by the final report exactly when its failed list is
\* empty or attempts = max_retries; so there are at most 1 + max_retries
\* rounds, and exactly one when max_retries = 0 or every job succeeds at once,
\* the report then counting all jobs succeeded and none failed.
C8_Termination ==
    /\ [][StepsBound' < StepsBound]_vars
    /\ [](StepsBound >= 0)
    /\ [](Reported \/ Crashed \/ ENABLED Next)
    /\ [](Crashed => AnyRaised)
    /\ [](Reported => ~AnyRaised)
    /\ [][RoundEnded =>
            (Reported' <=> (rfail = <<>> \/ attempts = max_retries))]_vars
    /\ [](attempts <= max_retries)
    /\ [](Reported => (fail = <<>> \/ attempts = max_retries))
    /\ []((Reported /\ (max_retries = 0 \/ FirstTryAllOk)) => attempts = 0)
    /\ []((Reported /\ FirstTryAllOk) => (Len(ok) = NumJobs /\ Len(fail) = 0))

\* the report comes with the budget used up and a job still failing
C8_Witness ==
    /\ Reported
    /\ max_retries >= 1
    /\ attempts = max_retries
    /\ fail # <<>>

\* every job of the round has run to the end
AllRan ==
    /\ Len(futs) = Len(tasks)
    /\ \A k \in 1..Len(futs) : futs[k].st \in {"done", "collected", "raised"}

\* the verdict of the future at position k is in the round's lists
Recorded(k) ==
    /\ futs[k].st = "collected"
    /\ futs[k].ret = 0 => futs[k].seed_name \in SeqToSet(rok)
    /\ futs[k].ret # 0 => futs[k].seed_name \in Names(rfail)

\* C9 as stated: when a round is over, however a job of it failed (also by an
\* exception in its run_one), every other job has run to completion and has
\* its verdict recorded in the round's result.
C9_OthersRecorded ==
    (RoundEnded \/ Crashed) =>
        /\ AllRan
        /\ \A k \in 1..Len(futs) : futs[k].st # "raised" => Recorded(k)

\* C9, amended: when a round is over, however a job of it failed, every job
\* of the round has run to completion; if the round returned (the failures
\* were nonzero exits or markers) every job's verdict is recorded in its
\* result; if a job's run_one raised, the round does not return a result.
C9_FailureIsolation ==
    /\ (RoundEnded \/ Crashed) => AllRan
    /\ RoundEnded => (~AnyRaised /\ \A k \in 1..Len(futs) : Recorded(k))
    /\ Crashed => AnyRaised
    /\ AnyRaised => pc \in {"submit", "collect", "unwind", "crashed"}

\* the exception has left run_tasks; a job queued behind the one that raised
\* still ran to its end, and its verdict is in no list
C9_Witness ==
    /\ Crashed
    /\ \E j, k \in 1..Len(futs) :
          /\ j < k
          /\ futs[j].st = "raised"
          /\ futs[k].st = "done"
          /\ futs[k].ret = 0

InRetryRound == attempts >= 1 /\ pc \in {"submit", "collect", "unwind", "returned", "crashed"}

\* C10 as stated: in a retry round a job is run with the command, the GPU id
\* and the log path of its failed-job descriptor.
C10_SameCmdGpuLog ==
    InRetryRound =>
        \A k \in 1..Len(futs) :
            /\ futs[k].cmd = tasks[k].cmd
            /\ futs[k].gpu_id = tasks[k].gpu_id
            /\ futs[k].log_file = tasks[k].log_file

\* C10, amended: in a retry round a job is run with the command and the log
\* path of its failed-job descriptor, which are those of its run in the round
\* before; the descriptor's GPU id is the one of that run, and the GPU id of
\* the retry is gpu_ids[i mod G] for its position i in the retry list.
C10_SameCmdAndLog ==
    InRetryRound =>
        /\ \A k \in 1..Len(tasks) :
              /\ prev[tasks[k].seed_name] # NoRun
              /\ tasks[k].cmd = prev[tasks[k].seed_name].cmd
              /\ tasks[k].log_file = prev[tasks[k].seed_name].log_file
              /\ tasks[k].gpu_id = prev[tasks[k].seed_name].gpu_id
        /\ \A k \in 1..Len(futs) :
              /\ futs[k].seed_name = tasks[k].seed_name
              /\ futs[k].cmd = tasks[k].cmd
              /\ futs[k].log_file = tasks[k].log_file
              /\ futs[k].gpu_id = gpu_ids[((k - 1) % Len(gpu_ids)) + 1]

\* a retried job has finished a run on a GPU id other than its descriptor's
C10_Witness ==
    /\ InRetryRound
    /\ \E k \in InState({"done"}) :
          /\ futs[k].gpu_id # tasks[k].gpu_id
          /\ futs[k].cmd = prev[tasks[k].seed_name].cmd
          /\ futs[k].log_file = prev[tasks[k].seed_name].log_file

\* submitted jobs that have not completed
Pending == InState({"queued", "running"})

\* C11 as stated: the submit loop never has more than G submitted jobs that
\* are not yet completed.
C11_SubmitBlocks == Cardinality(Pending) <= Len(gpu_ids)

\* C11, amended: submit never blocks (the submit loop can always take its
\* next step, whatever the workers are doing, so all L jobs of a round can be
\* submitted and not completed); the jobs wait in the pool's queue in
\* submission order, and only the number of jobs running is held to G.
C11_SubmitNeverBlocks ==
    /\ pc = "submit" => ENABLED Submit
    /\ \A j \in InState({"queued"}) :
          \A k \in 1..Len(futs) : futs[k].st # "queued" => k < j
    /\ Cardinality(Pending) <= Len(tasks)
    /\ Cardinality(Running) <= Len(gpu_ids)

\* the whole round is submitted, more jobs than workers, and none is completed
C11_Witness ==
    /\ pc = "collect"
    /\ Len(tasks) > Len(gpu_ids)
    /\ Pending = 1..Len(tasks)
    /\ Cardinality(Running) = Len(gpu_ids)

\* the decimal spelling of the GPU ids given to the calls
Spelled(n) == CASE n = 0 -> "0" [] n = 1 -> "1" [] n = 10 -> "10"

\* C12: whatever the other calls are doing, the environment a child starts
\* with is the scheduler's, except that CUDA_VISIBLE_DEVICES is the decimal
\* string of that call's own gpu_id and that CUDA_DEVICE_ORDER is PCI_BUS_ID
\* when the scheduler's environment does not set it (a value set there is
\* kept); os.environ itself is never changed.
C12_ChildEnvironment ==
    /\ [](\A c \in 1..Len(env_calls) :
            env_calls[c].at = "spawned" =>
                \A k \in EnvNames :
                    env_calls[c].child_env[k] =
                        IF k = "CUDA_VISIBLE_DEVICES"
                            THEN Spelled(env_calls[c].gpu_id)
                        ELSE IF k = "CUDA_DEVICE_ORDER" /\ os_environ[k] = Unset
                            THEN "PCI_BUS_ID"
                        ELSE os_environ[k])
    /\ [][os_environ' = os_environ]_vars

\* two children were started with different GPU ids, the caller's device
\* order kept in both, while the scheduler's own setting stayed "7"
C12_Witness ==
    /\ Len(env_calls) >= 2
    /\ os_environ["CUDA_VISIBLE_DEVICES"] = "7"
    /\ os_environ["CUDA_DEVICE_ORDER"] = "FASTEST_FIRST"
    /\ env_calls[1].at = "spawned"
    /\ env_calls[2].at = "spawned"
    /\ env_calls[1].child_env["CUDA_VISIBLE_DEVICES"] = "10"
    /\ env_calls[2].child_env["CUDA_VISIBLE_DEVICES"] = "0"
    /\ env_calls[1].child_env["CUDA_DEVICE_ORDER"] = "FASTEST_FIRST"

\* C13: a job whose run_one raised gets no verdict (its name enters neither
\* list of the round), is not attempted again, and the run then never prints
\* a round summary or the final report: it can only end with the exception
\* leaving main.
C13_SpawnFailureCrashes ==
    /\ \A k \in InState({"raised"}) :
          /\ futs[k].seed_name \notin SeqToSet(rok)
          /\ futs[k].seed_name \notin Names(rfail)
    /\ \A s \in Seeds : \A a \in 1..Len(hist[s]) :
          hist[s][a] = "raise" =>
              /\ a = Len(hist[s])
              /\ \E k \in InState({"raised"}) : futs[k].seed_name = s
    /\ AnyRaised =>
          /\ pc \in {"submit", "collect", "unwind", "crashed"}
          /\ (Crashed \/ ENABLED Next)

\* the run crashed in the retry round: the retried job could not be started
C13_Witness ==
    /\ Crashed
    /\ attempts = 1
    /\ \E k \in InState({"raised"}) :
          hist[futs[k].seed_name] = <<"fail", "raise">>

\* C14: with a log file that cannot be read back after the child ended,
\* run_one still returns; the text it scans is empty and the value returned
\* is the child's exit code, so the job succeeded iff the exit code is 0.
C14_TailReadFailure ==
    (ro_pc # "idle" /\ ro.log_file # None /\ ~ro.readOk) =>
        /\ ro_pc # "returned" => ENABLED NextRunOne
        /\ ro_pc \in {"scan", "returned"} => ro_text = <<>>
        /\ ro_pc = "returned" => ro_ret = ro.code

\* the child printed "RuntimeError:" and exited 0, the log could not be read
\* back, and run_one returned 0
C14_Witness ==
    /\ ro_pc = "returned"
    /\ ro.log_file # None
    /\ ~ro.readOk
    /\ ro.out = <<"Runtime", "Error:">>
    /\ ro.code = 0
    /\ ro_ret = 0

\* C15: the pool limits only the number of running jobs: while the pool is
\* live, a queued job can start as soon as fewer than G jobs are running,
\* whatever GPU ids the running jobs have (so two jobs with the same GPU id
\* can run together, see the witness).
C15_NoGpuExclusion ==
    (PoolLive /\ InState({"queued"}) # {} /\ Cardinality(Running) < Len(gpu_ids))
        => ENABLED StartJob

\* more jobs than GPU ids, at least two GPU ids: two jobs with the same GPU
\* id are running while no running job has the other GPU id
C15_Witness ==
    /\ Len(gpu_ids) >= 2
    /\ Len(tasks) > Len(gpu_ids)
    /\ \E j, k \in Running :
          /\ j # k
          /\ futs[j].gpu_id = futs[k].gpu_id
    /\ \E g \in 1..Len(gpu_ids) :
          \A k \in Running : futs[k].gpu_id # gpu_ids[g]

\* the jobs of the current round that ran to completion (run_one returned)
Completed == InState({"done", "collected"})

\* C16 as stated: once a round is over, every job of it that completed has
\* exactly one status line.  Violated: after a spawn failure the loop is left,
\* and jobs that complete afterwards (or were not yet taken) get no line.
C16_ExactlyOnce ==
    pc \in {"returned", "done", "crashed"} =>
        \A k \in Completed : Len(futs[k].printed) = 1

\* C16 (amended): a job has at most one status line, and has it only once it
\* completed and its verdict was taken; the line is OK for ret = 0, else FAIL
\* with the exit code; a round that returns has printed exactly one line for
\* each of its jobs; and the line of a completed job can be printed whatever
\* the other jobs of the round are doing (running or queued).
C16_StatusEmission ==
    /\ \A k \in 1..Len(futs) :
          /\ Len(futs[k].printed) <= 1
          /\ Len(futs[k].printed) = 1 <=> futs[k].st = "collected"
          /\ futs[k].st = "collected" =>
                futs[k].printed[1] =
                    IF futs[k].seed_name \in SeqToSet(rok)
                    THEN <<"OK", futs[k].gpu_id, futs[k].seed_name>>
                    ELSE <<"FAIL", futs[k].gpu_id, futs[k].seed_name, futs[k].ret>>
          /\ futs[k].st = "collected" =>
                (futs[k].seed_name \in SeqToSet(rok) <=> futs[k].ret = 0)
    /\ pc \in {"returned", "done"} =>
          /\ Len(futs) = Len(tasks)
          /\ \A k \in 1..Len(futs) : Len(futs[k].printed) = 1
    /\ (pc = "collect" /\ InState({"done"}) # {}) => ENABLED Collect

\* a FAIL line with its exit code and an OK line are out while a job of the
\* round is still running and another is still queued
C16_Witness ==
    /\ pc = "collect"
    /\ Running # {}
    /\ InState({"queued"}) # {}
    /\ \E k \in InState({"collected"}) : futs[k].printed[1][1] = "FAIL"

\* the jobs of the round other than the hung one are all through: completed,
\* or failed to spawn
OthersThrough ==
    \A j \in 1..Len(futs) :
        j \notin Hung => futs[j].st \in {"done", "collected", "raised"}

\* C17: while a child never exits, its job stays where it is and keeps its
\* worker (fewer than G other jobs run); the round never returns and never
\* crashes out, so attempts, ok, fail and tasks stay as they are and there is
\* no retry round and no final report; every further step lowers the bound on
\* the steps left, and the run comes to rest only with all L jobs submitted
\* and, for G >= 2, every other job of the round through (a queued job can
\* start whenever fewer than G - 1 others run, a running one can finish),
\* while for G = 1 every job behind the hung one is still queued.
C17_HungChild ==
    /\ [](Hung # {} =>
            /\ pc \in {"submit", "collect", "unwind"}
            /\ Cardinality(Running) <= Len(gpu_ids) - 1
            /\ (/\ Len(gpu_ids) >= 2
                /\ InState({"queued"}) # {}
                /\ Cardinality(Running) < Len(gpu_ids) - 1) => ENABLED StartJob
            /\ Running # {} => ENABLED FinishJob
            /\ ~ENABLED NextHang =>
                  /\ Len(futs) = Len(tasks)
                  /\ Len(gpu_ids) >= 2 => OthersThrough
            /\ Len(gpu_ids) = 1 =>
                  \A k \in Hung :
                      \A j \in (k + 1)..Len(futs) : futs[j].st = "queued")
    /\ [][Hung # {} =>
            /\ \A k \in Hung : k <= Len(futs') /\ futs'[k].st = "hung"
            /\ attempts' = attempts
            /\ ok' = ok
            /\ fail' = fail
            /\ tasks' = tasks
            /\ StepsBound' < StepsBound]_vars

\* two GPU ids, a retry round in which one child hangs: the other jobs of
\* the round have completed and were reported, and no step is left
C17_Witness ==
    /\ Hung # {}
    /\ Len(gpu_ids) >= 2
    /\ Len(futs) >= 2
    /\ attempts = 1
    /\ pc = "collect"
    /\ \A j \in 1..Len(futs) : j \notin Hung => futs[j].st = "collected"
    /\ ~ENABLED NextHang

\* C18: a new round begins (attempts goes up, by one) only from a state in
\* which every job of the current round has completed and had its verdict
\* taken, and it begins with no job submitted; a job that is queued or
\* running in round attempts + 1 has exactly attempts earlier attempts, all of
\* them finished as failures; and any two running jobs have different names
\* and different log files.
C18_RoundBarrier ==
    /\ [](\A j, k \in Running :
             j # k => /\ futs[j].seed_name # futs[k].seed_name
                      /\ futs[j].log_file # futs[k].log_file)
    /\ [](\A k \in Pending :
             /\ Len(hist[futs[k].seed_name]) = attempts
             /\ \A a \in 1..attempts : hist[futs[k].seed_name][a] = "fail")
    /\ [][attempts' # attempts =>
             /\ attempts' = attempts + 1
             /\ Len(futs) = Len(tasks)
             /\ \A k \in 1..Len(futs) : futs[k].st = "collected"
             /\ futs' = <<>>]_vars
    /\ [][(\E k \in 1..Len(futs') :
              /\ futs'[k].st = "running"
              /\ k \in 1..Len(futs) => futs[k].st # "running") =>
             /\ attempts' = attempts
             /\ pc \in {"submit", "collect", "unwind"}]_vars

\* a retry round with two jobs running at once, each on its second attempt
C18_Witness ==
    /\ attempts = 1
    /\ Cardinality(Running) = 2
    /\ \A k \in Running : hist[futs[k].seed_name] = <<"fail">>

\* C19: once main has taken the result of round 1, and after every retry
\* round, the names in ok and the names in fail are disjoint, neither list
\* names a job twice, and together they are exactly the names of the initial
\* job list; so at the final report len(ok) + len(fail) is the number of
\* initial jobs.  The same holds for the lists main is about to take when a
\* round has just returned.
C19_Conservation ==
    /\ (attempts >= 1 \/ Reported) =>
          /\ SeqToSet(ok) \cap Names(fail) = {}
          /\ SeqToSet(ok) \cup Names(fail) = Seeds
          /\ NoDuplicates(ok)
          /\ Cardinality(Names(fail)) = Len(fail)
          /\ Len(ok) + Len(fail) = NumJobs
    /\ RoundEnded =>
          LET allOk == IF attempts = 0 THEN rok ELSE ok \o rok
          IN  /\ SeqToSet(allOk) \cap Names(rfail) = {}
              /\ SeqToSet(allOk) \cup Names(rfail) = Seeds
              /\ Len(allOk) + Len(rfail) = NumJobs

\* the final report after a retry round: a job that succeeded in round 1, a
\* job that succeeded on its retry, and a job that still fails
C19_Witness ==
    /\ Reported
    /\ attempts >= 1
    /\ \E s \in SeqToSet(ok) : hist[s] = <<"ok">>
    /\ \E s \in SeqToSet(ok) : Len(hist[s]) = attempts + 1
    /\ fail # <<>>

====
